---- MODULE Spec2Model ----
(***************************************************************************)
(* Model of segment_rust: an append-only, file-backed segment of           *)
(* length-prefixed records (src/src/segment.rs, src/src/message.rs,        *)
(* src/src/storable.rs).                                                   *)
(*                                                                         *)
(* A path is a sequence of components, a component is a sequence of        *)
(* one-character strings, a file is a sequence of bytes (0..255).  A       *)
(* record is a Message: [content |-> sequence of ASCII bytes].             *)
(***************************************************************************)
EXTENDS Integers, Sequences, FiniteSets, TLC

(* ------------------------------ bounds -------------------------------- *)

\* longest Message content, in bytes
MaxContentLen == 1
\* number of writes that reach the file in one behaviour
MaxWrites == 2

(* ------------------------- program constants -------------------------- *)

\* Segment::LENGTH, the size of the length prefix read back by read
LENGTH == 4
\* Message::MESSAGE_LENGTH, the header size added by total_length
MESSAGE_LENGTH == 4
\* pub const FILE_EXTENSION: &str = "segment"
FILE_EXTENSION == <<"s", "e", "g", "m", "e", "n", "t">>
\* the minimum width of format!("{:08}", base_offset)
PadWidth == 8
\* one 16-bit limb: a u32 is kept as [hi, lo] with value hi * Limb + lo,
\* so that values at and above 2^31 keep their width
Limb == 65536

(* ------------------------------ inputs -------------------------------- *)

\* the text "abc": a caller's messages are its prefixes
Text == <<97, 98, 99>>

\* the records a caller writes: Message::new(content)
Records == {[content |-> SubSeq(Text, 1, k)] : k \in 0..MaxContentLen}

\* the slots holding Segment values: two segments may be alive at a time
Handles == {1, 2}

\* the base offsets a caller passes to Segment::new
BaseOffsets == {0}

Builds == {"debug", "release"}

(* --------------------------- byte encodings --------------------------- *)

\* the prefix in the wrong byte order: u32::to_le_bytes
ToLeBytes(n) ==
    <<n % 256, (n \div 256) % 256, (n \div 65536) % 256, (n \div 16777216) % 256>>

\* u32::to_be_bytes, for n < 2^31
ToBeBytes(n) ==
    <<(n \div 16777216) % 256, (n \div 65536) % 256, (n \div 256) % 256, n % 256>>

\* u32::from_be_bytes; the bytes a segment file of this model holds are
\* below 128, so the value stays below 2^31
FromBeBytes(b) ==
    b[1] * 16777216 + b[2] * 65536 + b[3] * 256 + b[4]

\* bincode's fixed-width little-endian u64, for n < 2^31
ToLe64(n) ==
    <<n % 256, (n \div 256) % 256, (n \div 65536) % 256, (n \div 16777216) % 256,
      0, 0, 0, 0>>

FromLe64High(b) == b[5] + b[6] + b[7] + b[8]

FromLe64Low(b) == b[1] + b[2] * 256 + b[3] * 65536 + b[4] * 16777216

\* bincode::serialize(&Message): the String field as u64 length + UTF-8 bytes
Serialize(r) == ToLe64(Len(r.content)) \o r.content

\* the bytes of the model are ASCII or not text at all
Utf8Valid(bs) == \A i \in 1..Len(bs) : bs[i] < 128

\* bincode::deserialize::<Message>(bytes): trailing bytes are allowed
Deserialize(bs) ==
    IF Len(bs) < 8
    THEN [ok |-> FALSE, rec |-> [content |-> <<>>]]
    ELSE LET lenBytes == SubSeq(bs, 1, 8)
             n        == FromLe64Low(lenBytes)
         IN  IF FromLe64High(lenBytes) # 0 \/ Len(bs) - 8 < n
             THEN [ok |-> FALSE, rec |-> [content |-> <<>>]]
             ELSE LET body == SubSeq(bs, 9, 8 + n)
                  IN  IF Utf8Valid(body)
                      THEN [ok |-> TRUE, rec |-> [content |-> body]]
                      ELSE [ok |-> FALSE, rec |-> [content |-> <<>>]]

(* --------------------- 32-bit size accounting ------------------------- *)

\* a length as two limbs; hi may exceed one limb for a usize above 2^32
Wide(n) == [hi |-> n \div Limb, lo |-> n % Limb]

\* the value of a wide number below 2^31
WideVal(w) == w.hi * Limb + w.lo

\* w + k for a small k, with the carry into hi
WideAdd(w, k) == [hi |-> w.hi + ((w.lo + k) \div Limb), lo |-> (w.lo + k) % Limb]

\* v + w, with the carry into hi
WidePlus(v, w) == [hi |-> v.hi + w.hi + ((v.lo + w.lo) \div Limb), lo |-> (v.lo + w.lo) % Limb]

\* `len() as u32`: the truncating cast keeps the low 32 bits
AsU32(w) == [hi |-> w.hi % Limb, lo |-> w.lo]

\* Storable::content_length for Message, from the serialized length
content_length(slen) == AsU32(slen)

\* Storable::total_length for Message: a u32 addition, which panics on
\* overflow in a build with overflow checks and wraps otherwise
total_length(slen, build) ==
    LET sum == WideAdd(content_length(slen), MESSAGE_LENGTH)
    IN  IF sum.hi < Limb
        THEN [panic |-> FALSE, val |-> sum]
        ELSE IF build = "debug"
             THEN [panic |-> TRUE, val |-> sum]
             ELSE [panic |-> FALSE, val |-> AsU32(sum)]

SerializedLen(r) == Wide(Len(Serialize(r)))

(* ----------------------------- file names ----------------------------- *)

DigitChars == <<"0", "1", "2", "3", "4", "5", "6", "7", "8", "9">>

RECURSIVE Digits(_)
Digits(n) ==
    IF n < 10 THEN <<DigitChars[n + 1]>>
    ELSE Append(Digits(n \div 10), DigitChars[(n % 10) + 1])

RECURSIVE Zeros(_)
Zeros(k) == IF k <= 0 THEN <<>> ELSE <<"0">> \o Zeros(k - 1)

\* format!("{:08}", base_offset): at least eight digits, zero-padded
Format08(n) == Zeros(PadWidth - Len(Digits(n))) \o Digits(n)

\* Path::with_extension on the last component: the part after the last dot
\* (a leading dot is not an extension) is replaced
WithExtension(name, ext) ==
    LET dots == {i \in 2..Len(name) : name[i] = "."}
        stem == IF dots = {} THEN name
                ELSE SubSeq(name, 1, (CHOOSE i \in dots : \A j \in dots : j <= i) - 1)
    IN  stem \o <<".">> \o ext

\* the file path Segment::new opens
FilePath(dir, base) == Append(dir, WithExtension(Format08(base), FILE_EXTENSION))

IsDigit(c) == \E d \in 1..10 : DigitChars[d] = c

DigitVal(c) == (CHOOSE d \in 1..10 : DigitChars[d] = c) - 1

RECURSIVE DecimalVal(_)
DecimalVal(s) ==
    IF Len(s) = 0 THEN 0
    ELSE DecimalVal(SubSeq(s, 1, Len(s) - 1)) * 10 + DigitVal(s[Len(s)])

\* str::parse::<u64>: an optional "+", then one or more decimal digits
ParseU64(s) ==
    LET body == IF Len(s) > 0 /\ s[1] = "+" THEN SubSeq(s, 2, Len(s)) ELSE s
    IN  IF Len(body) > 0 /\ \A i \in 1..Len(body) : IsDigit(body[i])
        THEN [ok |-> TRUE, val |-> DecimalVal(body)]
        ELSE [ok |-> FALSE, val |-> 0]

(* ---------------------------- file system ----------------------------- *)

DirD == <<<<"d">>>>

\* the parent directory a caller passes to Segment::new; neither it nor its
\* ancestor DirD exists at first
DirE == <<<<"d">>, <<"e">>>>

ParentDirs == {DirE}

\* a digits-only file of the working directory that exists before the
\* program starts
ExtPath == <<Format08(7)>>

\* what ExtPath holds: one frame of the record "a"
ExtContent == ToBeBytes(9) \o Serialize([content |-> <<97>>])

FilePaths == {FilePath(dir, b) : dir \in ParentDirs, b \in BaseOffsets} \cup {ExtPath}

\* the paths a caller passes to Segment::from
FromPaths == FilePaths \cup {<<>>, DirD}

Prefixes(p) == {SubSeq(p, 1, k) : k \in 0..Len(p)}

Parent(p) == SubSeq(p, 1, Len(p) - 1)

VARIABLES
    dirs,       \* the paths that are directories
    files,      \* the paths that are regular files
    data,       \* data[p]: the bytes of file p (<<>> while p is absent)
    durable,    \* durable[p]: how many leading bytes of p are on stable storage
    seg,        \* seg[h]: the Segment value held in slot h
    hist,       \* hist[h]: the successful writes of seg[h], in order
    clean,      \* clean[h]: seg[h] came from new on an absent file and every
                \* byte of that file was appended by a successful write of seg[h]
    acked,      \* the frames whose write returned Ok: [path, at, bytes]
    writes,     \* number of write calls so far that appended bytes
    lastOp,     \* the last call and what it returned
    sz          \* the size-accounting computation of one record

vars == <<dirs, files, data, durable, seg, hist, clean, acked, writes, lastOp, sz>>

NoSeg ==
    [live |-> FALSE, origin |-> "none", base_offset |-> 0, write_position |-> 0,
     path |-> <<>>, writable |-> FALSE, cursor |-> 0]

NoRec == [content |-> <<>>]

NoFault == [at |-> "none", done |-> 0]

\* where a write_all of write may fail, and how many bytes of that buffer
\* reached the file before it did
Faults == {NoFault, [at |-> "prefix", done |-> 2], [at |-> "payload", done |-> 3]}

NoOp ==
    [kind |-> "none", h |-> 0, outcome |-> "ok", dir |-> <<>>, base |-> 0,
     path |-> <<>>, rec |-> NoRec, fault |-> NoFault, offset |-> 0,
     retPos |-> 0, retRec |-> NoRec, preLen |-> 0, preFile |-> FALSE,
     preDir |-> FALSE]

NoSz ==
    [phase |-> "idle", slen |-> Wide(0), build |-> "debug", cl |-> Wide(0),
     tl |-> Wide(0), panic |-> FALSE, wp0 |-> Wide(0), wp1 |-> Wide(0)]

PathExists(p) == p \in dirs \/ p \in files

\* fs::create_dir in place of create_dir_all: the parent must exist already
CreateDirOnly(dir) ==
    IF Parent(dir) \in dirs /\ dir \notin files
    THEN [ok |-> TRUE, dirs |-> dirs \cup {dir}]
    ELSE [ok |-> FALSE, dirs |-> dirs]

\* fs::create_dir_all: fails when a component of the path is a regular file
CreateDirAll(dir) ==
    IF \E q \in Prefixes(dir) : q \in files
    THEN [ok |-> FALSE, dirs |-> dirs]
    ELSE [ok |-> TRUE, dirs |-> dirs \cup Prefixes(dir)]

\* OpenOptions::new().create(true).read(true).append(true).open(path), with
\* ds the directories at the time of the call
OpenAppend(path, ds) ==
    IF Parent(path) \in ds /\ path \notin ds
    THEN [ok |-> TRUE, files |-> files \cup {path}]
    ELSE [ok |-> FALSE, files |-> files]

\* fs::File::open(path): read-only; a directory can be opened too
OpenReadOnly(path) == PathExists(path)

\* Path::file_name: none for a path without a last component
FileName(path) ==
    IF Len(path) = 0 THEN [some |-> FALSE, name |-> <<>>]
    ELSE [some |-> TRUE, name |-> path[Len(path)]]

\* the size metadata reports for a path
MetadataLen(path) == IF path \in files THEN Len(data[path]) ELSE 0

\* a descriptor opened without append: the bytes land at the cursor, over
\* what is there, after a gap of zeros when the cursor is past the end
WriteAtCursor(content, cursor, bytes) ==
    LET padded == content \o [i \in 1..(cursor - Len(content)) |-> 0]
    IN  SubSeq(padded, 1, cursor) \o bytes
        \o SubSeq(padded, cursor + Len(bytes) + 1, Len(padded))

\* a write on a descriptor opened with append lands at the end of the file,
\* wherever the descriptor's cursor stands
AppendWrite(content, cursor, bytes) == content \o bytes

Init ==
    /\ dirs = {<<>>}
    /\ files = {ExtPath}
    /\ data = [p \in FilePaths |-> IF p = ExtPath THEN ExtContent ELSE <<>>]
    /\ durable = [p \in FilePaths |-> Len(data[p])]
    /\ seg = [h \in Handles |-> NoSeg]
    /\ hist = [h \in Handles |-> <<>>]
    /\ clean = [h \in Handles |-> FALSE]
    /\ acked = {}
    /\ writes = 0
    /\ lastOp = NoOp
    /\ sz = NoSz

(* ------------------------------ Segment ------------------------------- *)

\* slots are interchangeable: a new Segment value takes the lowest free one
FreeSlot(h) == ~seg[h].live /\ \A g \in Handles : g < h => seg[g].live

\* Segment::new(parent_directory, base_offset) into the free slot h
New(h, dir, base) ==
    /\ FreeSlot(h)
    /\ LET made  == IF ~PathExists(dir) THEN CreateDirAll(dir)
                    ELSE [ok |-> TRUE, dirs |-> dirs]
           path  == FilePath(dir, base)
           open  == OpenAppend(path, made.dirs)
           op    == [NoOp EXCEPT !.kind = "new", !.h = h, !.dir = dir, !.base = base,
                                 !.path = path, !.preLen = MetadataLen(path),
                                 !.preFile = path \in files,
                                 !.preDir = PathExists(dir)]
       IN  IF ~made.ok
           THEN /\ lastOp' = [op EXCEPT !.outcome = "err"]
                /\ UNCHANGED <<dirs, files, seg, hist, clean>>
           ELSE IF ~open.ok
           THEN /\ dirs' = made.dirs
                /\ lastOp' = [op EXCEPT !.outcome = "err"]
                /\ UNCHANGED <<files, seg, hist, clean>>
           ELSE /\ dirs' = made.dirs
                /\ files' = open.files
                /\ seg' = [seg EXCEPT ![h] =
                             [live |-> TRUE, origin |-> "new", base_offset |-> base,
                              write_position |-> 0, path |-> path, writable |-> TRUE,
                              cursor |-> 0]]
                /\ hist' = [hist EXCEPT ![h] = <<>>]
                /\ clean' = [clean EXCEPT ![h] = path \notin files]
                /\ lastOp' = op
    /\ UNCHANGED <<data, durable, acked, writes, sz>>

\* the prefix holding total_length instead of content_length
LengthPrefixOfTotal(r) == ToBeBytes(WideVal(total_length(SerializedLen(r), "release").val))

\* the frame write appends for record r: the content length as four
\* big-endian bytes, then the serialized record
LengthPrefix(r) == ToBeBytes(WideVal(content_length(SerializedLen(r))))

\* the new write_position: `self.write_position += record.total_length() as u64`
Advance(pos, total) == WidePlus(pos, total)

\* write returning the position it had before the update
WriteResultStale(oldPos, newPos) == oldPos

\* the value write returns: Ok(self.write_position), read after the update
WriteResult(oldPos, newPos) == newPos

\* the cursor moved although the write failed
FailedPositionAdvanced(oldPos, newPos) == newPos

\* write_position after a write that failed: each `?` of lines 79 to 82
\* returns before the `+=` of line 84
FailedPosition(oldPos, newPos) == oldPos

\* Segment::write(record) on seg[h]; fault is where the environment makes a
\* write_all fail, build is how the binary was compiled
Write(h, r, fault, build) ==
    /\ seg[h].live
    /\ writes < MaxWrites
    /\ ~seg[h].writable => fault = NoFault
    /\ LET s      == seg[h]
           p      == s.path
           ser    == Serialize(r)
           prefix == LengthPrefix(r)
           tl     == total_length(SerializedLen(r), build)
           app    == IF ~s.writable THEN <<>>
                     ELSE IF fault.at = "prefix" THEN SubSeq(prefix, 1, fault.done)
                     ELSE IF fault.at = "payload" THEN prefix \o SubSeq(ser, 1, fault.done)
                     ELSE prefix \o ser
           failed == ~s.writable \/ fault # NoFault
           after  == AppendWrite(data[p], s.cursor, app)
           cur    == IF Len(app) > 0 THEN Len(after) ELSE s.cursor
           newPos == WideVal(Advance(Wide(s.write_position), tl.val))
           op     == [NoOp EXCEPT !.kind = "write", !.h = h, !.path = p, !.rec = r,
                                 !.fault = fault, !.preLen = Len(data[p]),
                                 !.preFile = TRUE, !.preDir = TRUE]
       IN  /\ data' = [data EXCEPT ![p] = after]
           /\ writes' = IF Len(app) > 0 THEN writes + 1 ELSE writes
           /\ clean' = [g \in Handles |->
                          IF seg[g].live /\ seg[g].path = p /\ Len(app) > 0
                             /\ (g # h \/ failed \/ tl.panic)
                          THEN FALSE ELSE clean[g]]
           /\ IF failed
              THEN /\ seg' = [seg EXCEPT ![h].cursor = cur,
                                         ![h].write_position =
                                             FailedPosition(s.write_position, newPos)]
                   /\ lastOp' = [op EXCEPT !.outcome = "err"]
                   /\ UNCHANGED <<hist, acked>>
              ELSE IF tl.panic
              THEN /\ seg' = [seg EXCEPT ![h].cursor = cur]
                   /\ lastOp' = [op EXCEPT !.outcome = "panic"]
                   /\ UNCHANGED <<hist, acked>>
              ELSE /\ seg' = [seg EXCEPT ![h].cursor = cur, ![h].write_position = newPos]
                   /\ lastOp' = [op EXCEPT !.retPos = WriteResult(s.write_position, newPos)]
                   /\ hist' = [hist EXCEPT ![h] =
                                 Append(@, [rec |-> r, at |-> Len(data[p]),
                                            ret |-> WriteResult(s.write_position, newPos)])]
                   /\ acked' = acked \cup {[path |-> p, at |-> Len(data[p]), bytes |-> app]}
    /\ UNCHANGED <<dirs, files, durable, sz>>

\* the payload read with read in place of read_exact: the bytes the file
\* does not have stay zero in the buffer (at most sixteen are looked at)
ReadAtZeroFill(content, offset) ==
    LET len == Len(content)
    IN  IF offset + LENGTH > len
        THEN [outcome |-> "err", rec |-> NoRec,
              cursor |-> IF offset > len THEN offset ELSE len]
        ELSE LET msg_len == FromBeBytes(SubSeq(content, offset + 1, offset + LENGTH))
                 last    == IF offset + LENGTH + msg_len > len THEN len
                            ELSE offset + LENGTH + msg_len
                 avail   == SubSeq(content, offset + LENGTH + 1, last)
                 missing == IF msg_len - Len(avail) > 16 THEN 16 ELSE msg_len - Len(avail)
                 d       == Deserialize(avail \o [i \in 1..missing |-> 0])
             IN  [outcome |-> IF d.ok THEN "ok" ELSE "err", rec |-> d.rec, cursor |-> last]

\* the body of Segment::read on a file holding content: seek, read_exact of
\* the prefix, read_exact of the payload, deserialize
ReadAt(content, offset) ==
    LET len == Len(content)
    IN  IF offset + LENGTH > len
        THEN [outcome |-> "err", rec |-> NoRec,
              cursor |-> IF offset > len THEN offset ELSE len]
        ELSE LET msg_len == FromBeBytes(SubSeq(content, offset + 1, offset + LENGTH))
             IN  IF offset + LENGTH + msg_len > len
                 THEN [outcome |-> "err", rec |-> NoRec, cursor |-> len]
                 ELSE LET d == Deserialize(SubSeq(content, offset + LENGTH + 1,
                                                  offset + LENGTH + msg_len))
                      IN  [outcome |-> IF d.ok THEN "ok" ELSE "err", rec |-> d.rec,
                           cursor |-> offset + LENGTH + msg_len]

\* the offset taken from where the last read or write left the cursor
SeekFromCurrent(cursor, offset) == cursor + offset

\* self.file.seek(io::SeekFrom::Start(offset)): the position read starts
\* at, whatever the cursor was
Seek(cursor, offset) == offset

\* Segment::read(offset) on seg[h]
Read(h, offset) ==
    /\ seg[h].live
    /\ LET s == seg[h]
           r == ReadAt(data[s.path], Seek(s.cursor, offset))
       IN  /\ seg' = [seg EXCEPT ![h].cursor = r.cursor]
           /\ lastOp' = [NoOp EXCEPT !.kind = "read", !.h = h, !.path = s.path,
                                     !.offset = offset, !.outcome = r.outcome,
                                     !.retRec = r.rec, !.preLen = Len(data[s.path]),
                                     !.preFile = TRUE, !.preDir = TRUE]
    /\ UNCHANGED <<dirs, files, data, durable, hist, clean, acked, writes, sz>>

\* the write_position a reconstructed segment starts with: `len + 1`
ReconstructedPosition(len) == len + 1

\* <Segment as From<PathBuf>>::from(path) into the free slot h.  Every
\* failure is an unwrap, so it panics; caught says whether the panic is
\* caught below the owner of the other segments or unwinds through it
From(h, path, caught) ==
    /\ FreeSlot(h)
    /\ LET fn     == FileName(path)
           opened == OpenReadOnly(path)
           len    == MetadataLen(path)
           parsed == ParseU64(fn.name)
           op     == [NoOp EXCEPT !.kind = "from", !.h = h, !.path = path,
                                 !.preLen = len, !.preFile = path \in files,
                                 !.preDir = PathExists(Parent(path))]
       IN  IF fn.some /\ opened /\ parsed.ok
           THEN /\ caught
                /\ seg' = [seg EXCEPT ![h] =
                             [live |-> TRUE, origin |-> "from", base_offset |-> parsed.val,
                              write_position |-> ReconstructedPosition(len),
                              path |-> path, writable |-> FALSE, cursor |-> 0]]
                /\ hist' = [hist EXCEPT ![h] = <<>>]
                /\ clean' = [clean EXCEPT ![h] = FALSE]
                /\ lastOp' = op
           ELSE /\ lastOp' = [op EXCEPT !.outcome = "panic"]
                /\ IF caught
                   THEN UNCHANGED <<seg, hist, clean>>
                   ELSE /\ seg' = [g \in Handles |-> NoSeg]
                        /\ hist' = [g \in Handles |-> <<>>]
                        /\ clean' = [g \in Handles |-> FALSE]
    /\ UNCHANGED <<dirs, files, data, durable, acked, writes, sz>>

\* the owner drops seg[h]: the file is closed and stays on disk
Drop(h) ==
    /\ seg[h].live
    /\ seg' = [seg EXCEPT ![h] = NoSeg]
    /\ hist' = [hist EXCEPT ![h] = <<>>]
    /\ clean' = [clean EXCEPT ![h] = FALSE]
    /\ lastOp' = [NoOp EXCEPT !.kind = "drop", !.h = h]
    /\ UNCHANGED <<dirs, files, data, durable, acked, writes, sz>>

DoNew == \E h \in Handles, dir \in ParentDirs, base \in BaseOffsets : New(h, dir, base)

DoWrite == \E h \in Handles, r \in Records, fault \in Faults, build \in Builds :
               Write(h, r, fault, build)

\* the offsets a caller reads at: the start of the file, an offset inside
\* the first prefix, the end of the file and the byte after it, every value
\* a write of this segment returned and every offset at which an
\* acknowledged frame starts
ReadOffsets(h) ==
    IF seg[h].live
    THEN {0, 1, Len(data[seg[h].path]), Len(data[seg[h].path]) + 1}
         \cup {hist[h][i].ret : i \in 1..Len(hist[h])}
         \cup {a.at : a \in {b \in acked : b.path = seg[h].path}}
    ELSE {}

DoRead == \E h \in Handles : \E offset \in ReadOffsets(h) : Read(h, offset)

DoFrom == \E h \in Handles, path \in FromPaths, caught \in BOOLEAN : From(h, path, caught)

DoDrop == \E h \in Handles : Drop(h)

Next == DoNew \/ DoWrite \/ DoRead \/ DoFrom \/ DoDrop

Spec == Init /\ [][Next]_vars

(* ------------------------- crash and storage -------------------------- *)

\* the operating system writes the cached bytes of file p back to storage,
\* at a time of its choosing; File::flush does not ask for it and write
\* never syncs
Writeback(p) ==
    /\ p \in files
    /\ durable[p] < Len(data[p])
    /\ durable' = [durable EXCEPT ![p] = Len(data[p])]
    /\ UNCHANGED <<dirs, files, data, seg, hist, clean, acked, writes, lastOp, sz>>

\* the machine loses power: every Segment value is gone and each file keeps
\* the bytes that had reached storage
Crash ==
    /\ data' = [p \in FilePaths |-> SubSeq(data[p], 1, durable[p])]
    /\ seg' = [g \in Handles |-> NoSeg]
    /\ hist' = [g \in Handles |-> <<>>]
    /\ clean' = [g \in Handles |-> FALSE]
    /\ lastOp' = [NoOp EXCEPT !.kind = "crash"]
    /\ UNCHANGED <<dirs, files, durable, acked, writes, sz>>

DoWriteback == \E p \in FilePaths : Writeback(p)

NextCrash == DoNew \/ DoWrite \/ DoRead \/ DoDrop \/ DoWriteback \/ Crash

SpecCrash == Init /\ [][NextCrash]_vars

(* --------------------------- size accounting -------------------------- *)

\* serialized lengths around the ends of the u32 range
SizeLens ==
    {[hi |-> hi, lo |-> lo] : hi \in {0, 1, Limb - 1},
                              lo \in (0..4) \cup ((Limb - 5)..(Limb - 1))}

\* write positions a segment may have when the record is written
SizePositions == {Wide(0), Wide(13)}

InitSize ==
    /\ dirs = {<<>>}
    /\ files = {ExtPath}
    /\ data = [p \in FilePaths |-> IF p = ExtPath THEN ExtContent ELSE <<>>]
    /\ durable = [p \in FilePaths |-> Len(data[p])]
    /\ seg = [h \in Handles |-> NoSeg]
    /\ hist = [h \in Handles |-> <<>>]
    /\ clean = [h \in Handles |-> FALSE]
    /\ acked = {}
    /\ writes = 0
    /\ lastOp = NoOp
    /\ \E slen \in SizeLens, build \in Builds, wp \in SizePositions :
           sz = [NoSz EXCEPT !.phase = "input", !.slen = slen, !.build = build,
                             !.wp0 = wp, !.wp1 = wp]

\* record.content_length()
SizeContent ==
    /\ sz.phase = "input"
    /\ sz' = [sz EXCEPT !.phase = "content", !.cl = content_length(sz.slen)]
    /\ UNCHANGED <<dirs, files, data, durable, seg, hist, clean, acked, writes, lastOp>>

\* record.total_length()
SizeTotal ==
    /\ sz.phase = "content"
    /\ LET t == total_length(sz.slen, sz.build)
       IN  sz' = [sz EXCEPT !.phase = "total", !.tl = t.val, !.panic = t.panic]
    /\ UNCHANGED <<dirs, files, data, durable, seg, hist, clean, acked, writes, lastOp>>

\* self.write_position += record.total_length() as u64
SizeAdvance ==
    /\ sz.phase = "total"
    /\ ~sz.panic
    /\ sz' = [sz EXCEPT !.phase = "written", !.wp1 = Advance(sz.wp0, sz.tl)]
    /\ UNCHANGED <<dirs, files, data, durable, seg, hist, clean, acked, writes, lastOp>>

NextSize == SizeContent \/ SizeTotal \/ SizeAdvance

SpecSize == InitSize /\ [][NextSize]_vars

(* ------------------------------ claims -------------------------------- *)

\* the local offset at which the i-th frame of seg[h] is expected: O(i-1)
PrevRet(h, i) == IF i = 1 THEN 0 ELSE hist[h][i - 1].ret

\* the file name of base offset 0, spelled out
ZeroSegmentName ==
    <<"0", "0", "0", "0", "0", "0", "0", "0", ".", "s", "e", "g", "m", "e", "n", "t">>

\* C1: round trip.  On a segment created by new on an absent file, whose
\* file holds only the frames of its own successful writes, a read at offset
\* 0 after at least one write succeeds and returns the first record written.
RoundTrip ==
    (/\ lastOp.kind = "read"
     /\ lastOp.offset = 0
     /\ clean[lastOp.h]
     /\ Len(hist[lastOp.h]) >= 1)
    => (/\ lastOp.outcome = "ok"
        /\ lastOp.retRec = hist[lastOp.h][1].rec)

RoundTripWitness ==
    /\ lastOp.kind = "read"
    /\ lastOp.offset = 0
    /\ clean[lastOp.h]
    /\ Len(hist[lastOp.h]) >= 1
    /\ lastOp.outcome = "ok"
    /\ lastOp.retRec.content = <<97>>

\* C2: sequential append offsets.  The values O1..On returned by the
\* successful writes of a segment created by new satisfy
\* O(i) = O(i-1) + 4 + L(i) with O0 = 0 and L(i) the serialized length of the
\* i-th record, so they increase strictly and the first is 4 + L; a
\* successful write returns the write_position the segment has right after.
SequentialOffsets ==
    /\ \A h \in Handles :
         seg[h].origin = "new" =>
           \A i \in 1..Len(hist[h]) :
             /\ hist[h][i].ret = PrevRet(h, i) + 4 + Len(Serialize(hist[h][i].rec))
             /\ hist[h][i].ret > PrevRet(h, i)
    /\ (lastOp.kind = "write" /\ lastOp.outcome = "ok" /\ seg[lastOp.h].origin = "new")
       => (/\ lastOp.retPos = seg[lastOp.h].write_position
           /\ lastOp.retPos = hist[lastOp.h][Len(hist[lastOp.h])].ret)

SequentialOffsetsWitness ==
    /\ lastOp.kind = "write"
    /\ lastOp.outcome = "ok"
    /\ seg[lastOp.h].origin = "new"
    /\ clean[lastOp.h]
    /\ Len(hist[lastOp.h]) = 2
    /\ hist[lastOp.h][1].rec # hist[lastOp.h][2].rec
    /\ lastOp.retPos = 25

\* C3: read at a previously returned offset.  On a segment created by new on
\* an absent file, whose file holds only the frames of its own successful
\* writes, a read at O(i-1) returns the i-th record written, whatever reads
\* and writes came before it.
ReadAtReturnedOffset ==
    (lastOp.kind = "read" /\ clean[lastOp.h])
    => \A i \in 1..Len(hist[lastOp.h]) :
         lastOp.offset = PrevRet(lastOp.h, i)
         => (/\ lastOp.outcome = "ok"
             /\ lastOp.retRec = hist[lastOp.h][i].rec)

ReadAtReturnedOffsetWitness ==
    /\ lastOp.kind = "read"
    /\ clean[lastOp.h]
    /\ Len(hist[lastOp.h]) = 2
    /\ lastOp.offset = hist[lastOp.h][1].ret
    /\ lastOp.outcome = "ok"
    /\ lastOp.retRec = hist[lastOp.h][2].rec
    /\ hist[lastOp.h][1].rec # hist[lastOp.h][2].rec

\* the bytes of the acknowledged frames of file p, all together
RECURSIVE TotalBytes(_)
TotalBytes(S) ==
    IF S = {} THEN 0
    ELSE LET a == CHOOSE x \in S : TRUE
         IN  Len(a.bytes) + TotalBytes(S \ {a})

FramesTotal(p) == TotalBytes({a \in acked : a.path = p})

\* C4: reconstruction consistency.  Reconstructing from the path of a file
\* that Segment::new(dir, b) created, and that holds exactly the K > 0 bytes
\* of the frames written to it, yields a segment with base_offset b and
\* write_position K.
ReconstructionConsistent ==
    \A dir \in ParentDirs, b \in BaseOffsets :
      (/\ lastOp.kind = "from"
       /\ lastOp.path = FilePath(dir, b)
       /\ lastOp.preFile
       /\ lastOp.preLen > 0
       /\ lastOp.preLen = FramesTotal(lastOp.path))
      => (/\ lastOp.outcome = "ok"
          /\ seg[lastOp.h].live
          /\ seg[lastOp.h].base_offset = b
          /\ seg[lastOp.h].write_position = lastOp.preLen)

\* C5: reconstruction never panics: a path that cannot be reconstructed
\* yields an error value.
ReconstructNeverPanics ==
    lastOp.kind = "from" => lastOp.outcome # "panic"

\* C6: write after reconstruction.  On a segment reconstructed from a file
\* of length K, write(r) succeeds, the file grows by exactly r's frame, which
\* starts at K, and a read at K returns r.
WriteAfterReconstruct ==
    (/\ lastOp.kind = "write"
     /\ seg[lastOp.h].origin = "from")
    => (/\ lastOp.outcome = "ok"
        /\ Len(data[lastOp.path]) = lastOp.preLen + 4 + Len(Serialize(lastOp.rec))
        /\ ReadAt(data[lastOp.path], lastOp.preLen).outcome = "ok"
        /\ ReadAt(data[lastOp.path], lastOp.preLen).rec = lastOp.rec)

\* C7: durability boundary.  Every frame whose write returned Ok is in the
\* file, at the offset it was written to, also after a crash.
DurableOnceAcknowledged ==
    \A a \in acked :
      /\ Len(data[a.path]) >= a.at + Len(a.bytes)
      /\ SubSeq(data[a.path], a.at + 1, a.at + Len(a.bytes)) = a.bytes

\* C8: fresh creation.  Segment::new(dir, 0) on a dir that does not exist
\* succeeds, leaves dir and its ancestors existing as directories and the
\* file dir/00000000.segment existing, and returns a segment with
\* base_offset 0, write_position 0 and that file as its path.
FreshCreation ==
    (/\ lastOp.kind = "new"
     /\ lastOp.base = 0
     /\ ~lastOp.preDir)
    => (/\ lastOp.outcome = "ok"
        /\ Prefixes(lastOp.dir) \subseteq dirs
        /\ Append(lastOp.dir, ZeroSegmentName) \in files
        /\ seg[lastOp.h].live
        /\ seg[lastOp.h].base_offset = 0
        /\ seg[lastOp.h].write_position = 0
        /\ seg[lastOp.h].path = Append(lastOp.dir, ZeroSegmentName))

\* new on DirE while neither DirE nor DirD existed
FreshCreationWitness ==
    /\ lastOp.kind = "new"
    /\ lastOp.base = 0
    /\ ~lastOp.preDir
    /\ lastOp.dir = DirE
    /\ lastOp.outcome = "ok"
    /\ DirD \in dirs
    /\ DirE \in dirs
    /\ seg[lastOp.h].live

\* C9: on-disk layout.  On a segment created by new on an absent file, whose
\* file holds only what its successful writes appended, the file is the
\* frames of those writes back to back from byte 0: each frame is four bytes
\* holding, big-endian, the number of payload bytes, which is the record's
\* content_length, followed by the serialized record.
OnDiskLayout ==
    \A h \in Handles :
      clean[h] =>
        LET f == data[seg[h].path]
            n == Len(hist[h])
            L(i) == Len(Serialize(hist[h][i].rec))
            at(i) == hist[h][i].at
        IN  /\ Len(f) = IF n = 0 THEN 0 ELSE at(n) + 4 + L(n)
            /\ \A i \in 1..n :
                 /\ at(i) = IF i = 1 THEN 0 ELSE at(i - 1) + 4 + L(i - 1)
                 /\ f[at(i) + 1] * 16777216 + f[at(i) + 2] * 65536
                      + f[at(i) + 3] * 256 + f[at(i) + 4] = L(i)
                 /\ L(i) = WideVal(content_length(SerializedLen(hist[h][i].rec)))
                 /\ SubSeq(f, at(i) + 5, at(i) + 4 + L(i)) = Serialize(hist[h][i].rec)

OnDiskLayoutWitness ==
    \E h \in Handles :
      /\ clean[h]
      /\ Len(hist[h]) = 2
      /\ Len(hist[h][1].rec.content) = 1
      /\ Len(data[seg[h].path]) >= 25

\* C10: size invariant.  For every serialized length in 0..2^32-1,
\* total_length() is content_length() + 4 as integers, computed without
\* panic or wrap-around, and write advances write_position by that amount.
SizeInvariant ==
    /\ sz.phase \in {"total", "written"}
       => (/\ ~sz.panic
           /\ sz.cl = sz.slen
           /\ sz.tl = WideAdd(sz.slen, 4))
    /\ sz.phase = "written" => sz.wp1 = WidePlus(sz.wp0, WideAdd(sz.slen, 4))

\* C11: short read.  A read at an offset where the file has fewer than four
\* bytes left (at or past its end too), or where the four bytes there
\* declare more payload bytes than the file has left, returns an error.
ShortReadFails ==
    lastOp.kind = "read" =>
      LET f == data[lastOp.path]
          o == lastOp.offset
      IN  (\/ o + 4 > Len(f)
           \/ /\ o + 4 <= Len(f)
              /\ f[o + 1] * 16777216 + f[o + 2] * 65536 + f[o + 3] * 256 + f[o + 4]
                   > Len(f) - (o + 4))
          => lastOp.outcome = "err"

\* a read at the start of a dangling frame: whole prefix, part of the payload
ShortReadFailsWitness ==
    /\ lastOp.kind = "read"
    /\ lastOp.offset + 4 < Len(data[lastOp.path])
    /\ data[lastOp.path][lastOp.offset + 4] > Len(data[lastOp.path]) - (lastOp.offset + 4)
    /\ data[lastOp.path][lastOp.offset + 1] = 0
    /\ data[lastOp.path][lastOp.offset + 2] = 0
    /\ data[lastOp.path][lastOp.offset + 3] = 0
    /\ lastOp.outcome = "err"

\* C12: cursor/file agreement.  In every reachable state the write_position
\* of a live Segment equals the current length of its backing file.
CursorFileAgreement ==
    \A h \in Handles :
        seg[h].live => seg[h].write_position = Len(data[seg[h].path])

\* C13: append-only.  Every operation leaves each file with its former
\* content as a byte-for-byte prefix of its new content: no byte already in
\* a file is overwritten or cut off.
AppendOnly ==
    [][\A p \in DOMAIN data :
          /\ p \in DOMAIN data'
          /\ Len(data'[p]) >= Len(data[p])
          /\ SubSeq(data'[p], 1, Len(data[p])) = data[p]]_vars

\* a handle opened by new on a file that already had a frame has written its
\* own frame, and the earlier frame is still where it was
AppendOnlyWitness ==
    /\ lastOp.kind = "write"
    /\ lastOp.outcome = "ok"
    /\ lastOp.preLen > 0
    /\ seg[lastOp.h].write_position < lastOp.preLen
    /\ Len(data[lastOp.path]) > lastOp.preLen
    /\ \E a \in acked :
          /\ a.path = lastOp.path
          /\ a.at + Len(a.bytes) <= lastOp.preLen
          /\ SubSeq(data[a.path], a.at + 1, a.at + Len(a.bytes)) = a.bytes

\* C14: exclusive ownership.  No two live Segment handles refer to the same
\* backing file, and every offset a handle's write returned is the start of
\* the frame that write put in the file.
ExclusiveOwnership ==
    /\ \A g, h \in Handles :
          (g # h /\ seg[g].live /\ seg[h].live) => seg[g].path # seg[h].path
    /\ \A h \in Handles : \A i \in 1..Len(hist[h]) :
          seg[h].live => PrevRet(h, i) = hist[h][i].at

\* C15: failed write.  A write that fails at the length prefix or at the
\* payload (or on a handle that cannot write) returns an error, leaves
\* write_position, base_offset and path as they were, and leaves the file
\* grown by a proper prefix of the frame, possibly empty, and every other
\* file untouched.
FailedWriteLeavesSegment ==
    [][(lastOp'.kind = "write" /\ (lastOp'.fault # NoFault \/ lastOp'.outcome = "err")) =>
         LET h     == lastOp'.h
             p     == lastOp'.path
             frame == ToBeBytes(Len(Serialize(lastOp'.rec))) \o Serialize(lastOp'.rec)
         IN  /\ lastOp'.outcome = "err"
             /\ seg'[h].live
             /\ seg'[h].write_position = seg[h].write_position
             /\ seg'[h].base_offset = seg[h].base_offset
             /\ seg'[h].path = seg[h].path
             /\ \E k \in 0..(Len(frame) - 1) :
                   data'[p] = data[p] \o SubSeq(frame, 1, k)
             /\ \A q \in DOMAIN data : q # p => data'[q] = data[q]]_vars

\* after one frame written whole, a write has failed inside its payload
FailedWriteLeavesSegmentWitness ==
    /\ lastOp.kind = "write"
    /\ lastOp.outcome = "err"
    /\ lastOp.fault.at = "payload"
    /\ seg[lastOp.h].write_position > 0
    /\ seg[lastOp.h].write_position = lastOp.preLen
    /\ Len(data[lastOp.path]) = lastOp.preLen + 4 + lastOp.fault.done

\* C16: monotonic cursor.  write_position never decreases, and a write that
\* succeeds leaves it at least 4 above where it was, whatever the length of
\* the record.
MonotonicCursor ==
    /\ \/ sz.wp1.hi > sz.wp0.hi
       \/ sz.wp1.hi = sz.wp0.hi /\ sz.wp1.lo >= sz.wp0.lo
    /\ sz.phase = "written" =>
         LET least == WideAdd(sz.wp0, LENGTH)
         IN  \/ sz.wp1.hi > least.hi
             \/ sz.wp1.hi = least.hi /\ sz.wp1.lo >= least.lo

\* C17: read is effect-free.  A read, whether it returns a record or an
\* error, leaves write_position, base_offset, path and every file's content
\* as they were, and a read that follows a read of the same file at the same
\* offset returns what that one returned.
ReadEffectFree ==
    [][lastOp'.kind = "read" =>
         /\ data' = data
         /\ files' = files
         /\ \A h \in Handles :
               /\ seg'[h].live = seg[h].live
               /\ seg'[h].write_position = seg[h].write_position
               /\ seg'[h].base_offset = seg[h].base_offset
               /\ seg'[h].path = seg[h].path
         /\ (/\ lastOp.kind = "read"
             /\ lastOp.path = lastOp'.path
             /\ lastOp.offset = lastOp'.offset)
            => (/\ lastOp'.outcome = lastOp.outcome
                /\ lastOp'.retRec = lastOp.retRec)]_vars

\* a read has returned a record and left the file cursor behind the frame,
\* while the segment has frames of its own counted in write_position
ReadEffectFreeWitness ==
    /\ lastOp.kind = "read"
    /\ lastOp.outcome = "ok"
    /\ seg[lastOp.h].cursor > lastOp.offset
    /\ seg[lastOp.h].write_position > 0
    /\ Len(data[lastOp.path]) = lastOp.preLen

====
